---- MODULE Spec2Model ----
(***************************************************************************)
(* A model of the screenshot indexer (src-tauri/src/lib.rs): the index     *)
(* (save_entry_to_db, load_all_entries_from_db, delete_entry_from_db), the *)
(* delete_files command, the startup reconciliation and batch coordinator  *)
(* (start_watcher, process_existing_screenshots) and the watcher thread    *)
(* with the debounced worker tasks it spawns (handle_event,                *)
(* process_screenshot).                                                    *)
(*                                                                         *)
(* Time is counted in ticks of TickMs milliseconds since EpochMs.  Paths   *)
(* are records [dir, name, stamp, ext] standing for the file name          *)
(* "<dir>/<name>.<ext>" (stamp = 0) or "<dir>/<name>-<stamp>.<ext>", the   *)
(* shape rename_with_text builds.  A text is a string; what the regexes    *)
(* and substring tests of the code compute on it is tabulated in Sig.      *)
(***************************************************************************)
EXTENDS Integers, Sequences, FiniteSets, TLC

VARIABLES
    fs,         \* the file system: path -> file, DOMAIN fs = the paths that exist
    index,      \* table entries of chronicle.db: a set of rows
    nextId,     \* the AUTOINCREMENT sequence of entries.id
    clock,      \* ticks since the epoch
    lastCall,   \* the last save_entry_to_db call and its outcome
    known,      \* known_map: HashSet<PathBuf>
    ignore,     \* ignore_map: HashMap<PathBuf, Instant>, as path -> tick
    debounce,   \* debounce_map: HashMap<PathBuf, Instant>, as path -> instant
    serial,     \* number of Instant::now() readings taken by handle_event
    events,     \* rx: the channel of notify events, a FIFO
    workers,    \* the spawn_blocking tasks of handle_event
    invoked,    \* path -> number of process_screenshot calls made for it
    evlog,      \* path -> ticks at which handle_event stamped an event on it
    seen,       \* the paths of the Create and Modify events handle_event handled
    removed,    \* path of a handled Remove event -> a Create or Modify event on
                \* it was handled later
    envCount,   \* number of file system changes made by the environment
    spc,        \* start_watcher: position of the startup thread
    existing,   \* start_watcher: result of load_existing_screenshots
    already,    \* start_watcher: already_indexed_dates
    toProcess,  \* start_watcher: to_process
    batch,      \* process_existing_screenshots: its task
    progress,   \* the batch-progress messages emitted, in order
    statuses,   \* the "idle" ocr-status events emitted, in order
    delpc,      \* delete_files: position in the call
    delArgs,    \* delete_files: paths
    delOut,     \* delete_files: DeleteResult under construction
    cmd,        \* the call of a command or function under study and its inputs
    out         \* the value that call returned

dbVars      == <<index, nextId, lastCall>>
watchVars   == <<known, ignore, debounce, serial, events, workers, invoked, evlog, seen,
                 removed,
                 envCount>>
startVars   == <<spc, existing, already, toProcess, batch, progress, statuses>>
delVars     == <<delpc, delArgs, delOut>>
cmdVars     == <<cmd, out>>
vars        == <<fs, clock, dbVars, watchVars, startVars, delVars, cmdVars>>

----------------------------------------------------------------------------
(* Bounds of the model *)

MaxClock   == 7      \* ticks the clock may advance
MaxCalls   == 3      \* save_entry_to_db calls the Db specification makes
TickMs     == 250    \* length of a tick in milliseconds
EpochMs    == 100000 \* wall-clock time of tick 0, in milliseconds

NowMs      == EpochMs + clock * TickMs
\* SystemTime::now().duration_since(UNIX_EPOCH).as_secs()
NowSecs    == NowMs \div 1000

----------------------------------------------------------------------------
(* Texts and what the classifier's tests compute on them *)

Texts == {"", "$ ls", "3:41 PM", " 3:41 PM ", "see https://a.io now",
          "const x = 42; function f(){}",
          "quarterly figures were stable across every region last year again"}

\* The values of the conditions detect_collections tests, per text, in the
\* order the function tests them; len is text.trim().len().
Sig(t) ==
    LET none == [len |-> 0, bubbles |-> FALSE, secondary |-> FALSE, code |-> FALSE,
                 design |-> FALSE, receipts |-> FALSE, browser |-> FALSE,
                 terminal |-> FALSE, errors |-> FALSE, likelyMsg |-> FALSE,
                 docLike |-> FALSE, minimal |-> TRUE, uiOverlay |-> FALSE,
                 ocrNoise |-> FALSE, urls |-> <<>>, emails |-> <<>>]
    IN CASE t = "" -> none
         [] t = "$ ls" -> [none EXCEPT !.len = 4, !.terminal = TRUE, !.ocrNoise = TRUE]
         [] t \in {"3:41 PM", " 3:41 PM "} ->
                [none EXCEPT !.len = 7, !.secondary = TRUE, !.likelyMsg = TRUE,
                             !.ocrNoise = TRUE]
         [] t = "see https://a.io now" ->
                [none EXCEPT !.len = 20, !.browser = TRUE, !.urls = <<"https://a.io">>]
         [] t = "const x = 42; function f(){}" ->
                [none EXCEPT !.len = 28, !.code = TRUE]
         [] OTHER -> [none EXCEPT !.len = 65, !.minimal = FALSE]

\* str::trim
trim(t) == IF t = " 3:41 PM " THEN "3:41 PM" ELSE t

\* The decision structure of lines 507-711 with Code tested before Messages.
classify_code_first(s) ==
    IF s.code THEN <<"Code">>
    ELSE IF s.bubbles \/ s.secondary THEN <<"Messages">>
    ELSE <<>>

\* detect_collections: the decision structure of lines 507-711, on the values
\* of its conditions.
classify(s) ==
    LET t5 == IF s.browser THEN <<"Browser">> ELSE <<>>
        t7 == IF s.errors THEN Append(t5, "Errors") ELSE t5
    IN IF s.bubbles THEN <<"Messages">>
       ELSE IF s.secondary THEN <<"Messages">>
       ELSE IF s.code THEN <<"Code">>
       ELSE IF s.design THEN <<"Design">>
       ELSE IF s.receipts THEN <<"Receipts">>
       ELSE IF s.terminal THEN Append(t5, "Terminal")
       ELSE IF ~s.likelyMsg /\ t7 = <<>> /\ s.docLike THEN <<"Documents">>
       ELSE IF \/ (s.minimal /\ t7 = <<>> /\ s.len > 0)
               \/ (s.uiOverlay /\ t7 = <<>>)
               \/ (s.ocrNoise /\ t7 = <<>>)
            THEN Append(t7, "Images")
       ELSE t7

\* detect_collections(text)
detect_collections(t) == classify(Sig(t))

\* extract_urls_and_emails
extract_urls_and_emails(t) == <<Sig(t).urls, Sig(t).emails>>

----------------------------------------------------------------------------
(* The index *)

NoHash == "null"

\* compute_perceptual_hash(path).ok(): the hash of the image at path, NULL when
\* the file cannot be opened or decoded.
compute_perceptual_hash(p) == IF p \in DOMAIN fs THEN fs[p].hash ELSE NoHash

\* The tag list save_entry_to_db derives (lines 1469-1475), without the
\* forced ["Images"] of short texts.
DeriveTagsNoForce(t) == detect_collections(t)

\* The tag list save_entry_to_db derives (lines 1469-1475).
DeriveTags(t) ==
    IF Sig(t).len = 0 \/ Sig(t).len < 10 THEN <<"Images">> ELSE detect_collections(t)

\* INSERT without OR REPLACE and without the UNIQUE constraint on path.
InsertNoReplace(idx, row) == idx \cup {row}

\* INSERT OR REPLACE INTO entries under path TEXT NOT NULL UNIQUE: the rows
\* that conflict on path are deleted, then the row is inserted.
InsertOrReplace(idx, row) == {r \in idx : r.path # row.path} \cup {row}

\* The row save_entry_to_db writes.
NewRow(p, t, c) ==
    [id |-> nextId, path |-> p, text |-> t, created_at |-> c,
     processed_at |-> NowSecs, updated_at |-> NowSecs,
     tags |-> DeriveTags(t),
     urls |-> extract_urls_and_emails(t)[1],
     emails |-> extract_urls_and_emails(t)[2],
     perceptual_hash |-> compute_perceptual_hash(p)]

\* save_entry_to_db(app, path, text, created_at); ok = FALSE is an Err of
\* init_database or of the INSERT, which leaves the table as it was.
\* lastCall records the call; rep says that it succeeded and repeats the
\* arguments of the call before it, which succeeded too.
save_entry_to_db(p, t, c, ok) ==
    /\ index' = IF ok THEN InsertOrReplace(index, NewRow(p, t, c)) ELSE index
    /\ nextId' = IF ok THEN nextId + 1 ELSE nextId
    /\ lastCall' = [n |-> lastCall.n + 1, path |-> p, text |-> t,
                    created_at |-> c, ok |-> ok,
                    rep |-> /\ ok /\ lastCall.ok /\ lastCall.path = p
                            /\ lastCall.text = t /\ lastCall.created_at = c]

\* delete_entry_from_db(app, path)
delete_entry_from_db(idx, p) == {r \in idx : r.path # p}

\* The decimal digits of n, as SQLite stores the TEXT created_at.
RECURSIVE Digits(_)
Digits(n) == IF n < 10 THEN <<n>> ELSE Append(Digits(n \div 10), n % 10)

\* memcmp order of two TEXT values (BINARY collation): a < b
RECURSIVE TextLess(_, _)
TextLess(a, b) ==
    IF b = <<>> THEN FALSE
    ELSE IF a = <<>> THEN TRUE
    ELSE IF Head(a) # Head(b) THEN Head(a) < Head(b)
    ELSE TextLess(Tail(a), Tail(b))

\* DbEntry of a row (lines 1521-1530)
DbEntry(r) == [path |-> r.path, text |-> r.text, at |-> r.created_at,
               tags |-> r.tags, urls |-> r.urls, emails |-> r.emails]

\* The first row of ORDER BY created_at DESC; rows with equal created_at
\* come in descending rowid order.
FirstRow(rows) ==
    CHOOSE r \in rows : \A q \in rows :
        \/ q = r
        \/ TextLess(Digits(q.created_at), Digits(r.created_at))
        \/ (q.created_at = r.created_at /\ q.id < r.id)

\* load_all_entries_from_db: SELECT ... FROM entries ORDER BY created_at DESC
RECURSIVE load_all_entries_from_db(_)
load_all_entries_from_db(rows) ==
    IF rows = {} THEN <<>>
    ELSE LET r == FirstRow(rows)
         IN <<DbEntry(r)>> \o load_all_entries_from_db(rows \ {r})

----------------------------------------------------------------------------
(* Paths and files *)

Path(d, n, st, e) == [dir |-> d, name |-> n, stamp |-> st, ext |-> e]
NoPath == Path("", "", 0, "")

\* is_png: the extension equals "png", ignoring ASCII case
is_png(p) == p.ext \in {"png", "PNG", "Png"}

\* is_hidden: the file name starts with '.'
is_hidden(p) == p.name \in {".ocr_temp", ".hidden"}

\* A file: its creation time in milliseconds, the text an OCR pass reads in
\* it, its perceptual hash, and real, the path fs::canonicalize resolves it to
\* (NoPath: the path itself, CanonFail: canonicalize returns Err).
File(c, t, h) == [ctime |-> c, text |-> t, hash |-> h, real |-> NoPath]
CanonFail == Path("?", "", 0, "")

\* get_file_created_at(path): Some(milliseconds) when the metadata can be
\* read, None (here -1) otherwise.
NoTime == -1
get_file_created_at(p) == IF p \in DOMAIN fs THEN fs[p].ctime ELSE NoTime

EmptyMap == [x \in {} |-> 0]
MapPut(m, k, v) == [x \in (DOMAIN m) \cup {k} |-> IF x = k THEN v ELSE m[x]]
MapDel(m, k) == [x \in (DOMAIN m) \ {k} |-> m[x]]

\* wait_for_file(path): Ok (TRUE) needs two polls that read the same non-zero
\* size; Err (FALSE) is the result when the file is missing and
\* a possible one while the file is still being written.
WaitOutcomes(p) == IF p \in DOMAIN fs THEN BOOLEAN ELSE {FALSE}

\* run_ocr(path): Err when the metadata cannot be read; for a file that is
\* there, Ok with the cleaned text, or Err (a path that is not UTF-8, a file
\* emptied since).
OcrErr == [ok |-> FALSE, text |-> ""]
OcrOutcomes(p) ==
    IF p \in DOMAIN fs THEN {[ok |-> TRUE, text |-> fs[p].text], OcrErr} ELSE {OcrErr}

\* An "idle" ocr-status event (emit_status): its path, whether it carries an
\* error, and its text (NoText: the text field is None).
NoText == "<none>"
Status(p, err, t) == [path |-> p, error |-> err, text |-> t]

\* The created_at the pipeline stores: the file's creation time, or the
\* current time in seconds when the metadata cannot be read.
CreatedAtOrNow(p) ==
    IF get_file_created_at(p) # NoTime THEN get_file_created_at(p) ELSE NowSecs

----------------------------------------------------------------------------
(* The states in which a component is not running *)

BatchOff == [pc |-> "off", i |-> 0, completed |-> 0, text |-> ""]

NoCall == [n |-> 0, path |-> NoPath, text |-> "", created_at |-> 0, ok |-> FALSE,
           rep |-> FALSE]

DbIdle ==
    /\ index = {}
    /\ nextId = 1
    /\ lastCall = NoCall

WatchIdle ==
    /\ known = {}
    /\ ignore = EmptyMap
    /\ debounce = EmptyMap
    /\ serial = 0
    /\ events = <<>>
    /\ workers = <<>>
    /\ invoked = EmptyMap
    /\ evlog = EmptyMap
    /\ seen = {}
    /\ removed = EmptyMap
    /\ envCount = 0

StartIdle ==
    /\ spc = "off"
    /\ existing = <<>>
    /\ already = [ok |-> FALSE, dates |-> {}]
    /\ toProcess = <<>>
    /\ batch = BatchOff
    /\ progress = <<>>
    /\ statuses = <<>>

DelIdle ==
    /\ delpc = "off"
    /\ delArgs = <<>>
    /\ delOut = [deleted |-> <<>>, failed |-> <<>>]

NoCmd == [op |-> "none"]
CmdIdle ==
    /\ cmd = NoCmd
    /\ out = <<>>

\* The clock advances.
Tick ==
    /\ clock < MaxClock
    /\ clock' = clock + 1

----------------------------------------------------------------------------
(* SpecDb: the index under direct calls of its operations *)

DbPaths == {Path("Desktop", "shot", 0, "png"), Path("Desktop", "chat", 100, "png")}
DbCreated == {EpochMs, EpochMs + 1}
DbTexts == {"", "$ ls", "see https://a.io now"}

InitDb ==
    /\ fs = [p \in {Path("Desktop", "shot", 0, "png")} |-> File(EpochMs, "", "h1")]
    /\ clock = 0
    /\ DbIdle /\ WatchIdle /\ StartIdle /\ DelIdle /\ CmdIdle

DbSave ==
    \E p \in DbPaths, t \in DbTexts, c \in DbCreated, ok \in BOOLEAN :
        /\ lastCall.n < MaxCalls
        /\ save_entry_to_db(p, t, c, ok)
        /\ UNCHANGED <<fs, clock, watchVars, startVars, delVars, cmdVars>>

DbDelete ==
    \E p \in DbPaths :
        /\ index' = delete_entry_from_db(index, p)
        /\ UNCHANGED <<fs, clock, nextId, lastCall, watchVars, startVars, delVars, cmdVars>>

DbTick ==
    /\ Tick
    /\ UNCHANGED <<fs, dbVars, watchVars, startVars, delVars, cmdVars>>

NextDb == DbSave \/ DbDelete \/ DbTick

SpecDb == InitDb /\ [][NextDb]_vars

\* C7: after any sequence of save_entry_to_db calls the index holds at most
\* one row per path, and an upsert that repeats the (path, text, created_at)
\* of the upsert before it leaves the row's text, created_at, tags, urls and
\* emails as they were and the number of rows unchanged.
RowOf(idx, p) == CHOOSE r \in idx : r.path = p
OneRowPerPath == \A r, q \in index : r.path = q.path => r = q
RepeatedUpsert ==
    /\ lastCall'.n = lastCall.n + 1
    /\ lastCall'.ok /\ lastCall.ok
    /\ lastCall'.path = lastCall.path
    /\ lastCall'.text = lastCall.text
    /\ lastCall'.created_at = lastCall.created_at
    /\ \E r \in index : r.path = lastCall.path
UpsertIdempotent ==
    RepeatedUpsert =>
        /\ Cardinality(index') = Cardinality(index)
        /\ \E r \in index' : r.path = lastCall.path
        /\ DbEntry(RowOf(index', lastCall.path)) = DbEntry(RowOf(index, lastCall.path))
C7_UpsertByPath == []OneRowPerPath /\ [][UpsertIdempotent]_vars

\* C7 witness: an upsert has repeated the one before it, on a path that
\* held a row, while the index holds a row for another path too.
C7_Witness ==
    /\ lastCall.rep
    /\ \E r \in index : r.path = lastCall.path /\ r.id >= 2
    /\ Cardinality(index) = 2

----------------------------------------------------------------------------
(* SpecDel: the delete_files command *)

\* resolve_watch_dirs, and the directories below them (Path::starts_with)
WatchDirs == {"Desktop", "Screenshots"}
InWatchDir(p) == p.dir \in WatchDirs \cup {"Desktop/sub"}

\* fs::canonicalize(path) in file system f
canonicalize(f, p) == IF f[p].real = NoPath THEN p ELSE f[p].real

dIn     == Path("Desktop", "shot", 0, "png")
dGone   == Path("Desktop", "old", 0, "png")
dLink   == Path("Desktop", "link", 0, "png")
dOut    == Path("Elsewhere", "doc", 0, "png")
dAbsent == Path("Elsewhere", "gone", 0, "png")
dOdd    == Path("Elsewhere", "odd", 0, "png")
DelPaths == {dIn, dGone, dLink, dOut, dAbsent, dOdd}

\* The file system and the index the command is called on: dLink is a
\* symbolic link to dOut, dOdd exists, is indexed and cannot be canonicalized,
\* dGone is indexed and no longer on disk.
DelFs ==
    [p \in {dIn, dLink, dOut, dOdd} |->
        IF p = dLink THEN [File(EpochMs, "", "h1") EXCEPT !.real = dOut]
        ELSE IF p = dOdd THEN [File(EpochMs, "", "h1") EXCEPT !.real = CanonFail]
        ELSE File(EpochMs, "", "h1")]
DelRow(i, p) ==
    [id |-> i, path |-> p, text |-> "", created_at |-> EpochMs,
     processed_at |-> EpochMs \div 1000, updated_at |-> EpochMs \div 1000,
     tags |-> <<"Images">>, urls |-> <<>>, emails |-> <<>>, perceptual_hash |-> "h1"]
DelIndex == {DelRow(1, dIn), DelRow(2, dGone), DelRow(3, dOdd)}

MaxDelArgs == 2
DelArgLists == UNION {[1..n -> DelPaths] : n \in 0..MaxDelArgs}

InitDel ==
    /\ fs = DelFs
    /\ clock = 0
    /\ index = DelIndex /\ nextId = 4 /\ lastCall = NoCall
    /\ WatchIdle /\ StartIdle /\ CmdIdle
    /\ delpc = "ready" /\ delArgs = <<>>
    /\ delOut = [deleted |-> <<>>, failed |-> <<>>]

\* delete_files, lines 2000-2011: the call and its two early returns; home
\* says whether HOME is set (resolve_watch_dirs).
DelCall ==
    \E args \in DelArgLists, home \in BOOLEAN :
        /\ delpc = "ready"
        /\ delArgs' = args
        /\ delpc' = IF args = <<>> \/ ~home THEN "err" ELSE "loop"
        /\ UNCHANGED <<fs, clock, dbVars, watchVars, startVars, delOut, cmdVars>>

\* `let _ = delete_entry_from_db(&app, &path_str)` (lines 2020 and 2054): the
\* index after the call, whose Err (db = FALSE) is discarded.
TryDeleteEntry(idx, p, db) == IF db THEN delete_entry_from_db(idx, p) ELSE idx

\* delete_files, lines 2013-2063: one iteration of the loop, on the next
\* path; rm says whether fs::remove_file succeeds, db whether
\* delete_entry_from_db does.
DelStep ==
    \E rm \in BOOLEAN, db \in BOOLEAN :
        LET i    == Len(delOut.deleted) + Len(delOut.failed) + 1
            p    == delArgs[i]
            del  == [delOut EXCEPT !.deleted = Append(@, p)]
            fail == [delOut EXCEPT !.failed = Append(@, p)]
        IN /\ delpc = "loop"
           /\ i <= Len(delArgs)
           /\ IF p \notin DOMAIN fs
              THEN /\ index' = TryDeleteEntry(index, p, db)
                   /\ delOut' = del
                   /\ fs' = fs
              ELSE IF canonicalize(fs, p) = CanonFail
              THEN /\ index' = index
                   /\ delOut' = IF rm THEN del ELSE fail
                   /\ fs' = IF rm THEN MapDel(fs, p) ELSE fs
              ELSE IF ~InWatchDir(canonicalize(fs, p))
              THEN /\ index' = index
                   /\ delOut' = fail
                   /\ fs' = fs
              ELSE /\ index' = IF rm THEN TryDeleteEntry(index, p, db) ELSE index
                   /\ delOut' = IF rm THEN del ELSE fail
                   /\ fs' = IF rm THEN MapDel(fs, canonicalize(fs, p)) ELSE fs
           /\ delpc' = IF i = Len(delArgs) THEN "done" ELSE "loop"
           /\ UNCHANGED <<clock, nextId, lastCall, watchVars, startVars, delArgs,
                          cmdVars>>

NextDel == DelCall \/ DelStep

SpecDel == InitDel /\ [][NextDel]_vars

InSeq(x, q) == \E i \in 1..Len(q) : q[i] = x

\* C10: every input path that does not canonicalize to a location inside a
\* watch directory (it does not exist, its canonicalization fails, or it
\* resolves outside) is in failed and not in deleted when delete_files
\* returns, its file is still there and so are its index rows.
CanonInside(f, p) ==
    /\ p \in DOMAIN f
    /\ canonicalize(f, p) # CanonFail
    /\ InWatchDir(canonicalize(f, p))
C10_RefusesOutside ==
    delpc = "done" =>
        \A i \in 1..Len(delArgs) :
            LET p == delArgs[i]
            IN ~CanonInside(DelFs, p) =>
                /\ InSeq(p, delOut.failed)
                /\ ~InSeq(p, delOut.deleted)
                /\ (p \in DOMAIN DelFs => p \in DOMAIN fs)
                /\ {r \in index : r.path = p} = {r \in DelIndex : r.path = p}

----------------------------------------------------------------------------
(* SpecStart: start_watcher up to the registration of the watch           *)
(* directories, and the batch task it spawns                              *)

sA      == Path("Desktop", "Screenshot 1", 0, "png")
sB      == Path("Desktop", "Screenshot 2", 0, "PNG")
sC      == Path("Screenshots", "Screenshot 3", 0, "png")
sD      == Path("Screenshots", "Screenshot 4", 0, "png")
sHidden == Path("Desktop", ".hidden", 0, "png")
sNote   == Path("Desktop", "notes", 0, "txt")
sOld    == Path("Desktop", "hello-world", 99, "png")
StartFiles == {sA, sB, sC, sD}

\* The files that may be on disk at startup: sA was indexed by an earlier
\* run, sB was created in the same second as sA, sC and sD later.
StartFile(p) ==
    CASE p = sA -> File(EpochMs, "", "h1")
      [] p = sB -> File(EpochMs + 400, "$ ls", "h2")
      [] p = sC -> File(EpochMs + 1000, "$ ls", "h3")
      [] p = sD -> File(EpochMs + 2000, " 3:41 PM ", "h4")
      [] OTHER  -> File(EpochMs + 3000, "", NoHash)

\* The index at startup: the row an earlier batch run wrote for sA, and a row
\* an earlier watcher run wrote, with the time in seconds as created_at, for
\* a file that is no longer on disk.
StartIndex ==
    {DelRow(1, sA),
     [DelRow(2, sOld) EXCEPT !.created_at = EpochMs \div 1000]}

Range(q) == {q[i] : i \in 1..Len(q)}
Perms(S) == {q \in [1..Cardinality(S) -> S] : \A x \in S : \E i \in DOMAIN q : q[i] = x}

InitStart ==
    /\ \E S \in SUBSET StartFiles :
          fs = [p \in S \cup {sHidden, sNote} |-> StartFile(p)]
    /\ clock = 0
    /\ index = StartIndex /\ nextId = 3 /\ lastCall = NoCall
    /\ WatchIdle /\ DelIdle /\ CmdIdle
    /\ spc = "enumerate"
    /\ existing = <<>>
    /\ already = [ok |-> FALSE, dates |-> {}]
    /\ toProcess = <<>>
    /\ batch = BatchOff
    /\ progress = <<>>
    /\ statuses = <<>>

\* load_existing_screenshots: the PNG files of a watch directory that are not
\* hidden, in the order read_dir yields them.
InDir(d) == {p \in DOMAIN fs : p.dir = d /\ is_png(p) /\ ~is_hidden(p)}
load_existing_screenshots ==
    {a \o b : a \in Perms(InDir("Desktop")), b \in Perms(InDir("Screenshots"))}

\* (created_timestamp / 1000) * 1000, lines 1909 and 1937
Rounded(ms) == (ms \div 1000) * 1000

\* The filter of lines 1924-1949 with the timestamps compared as they are.
ShouldProcessExact(p, dates) ==
    \/ get_file_created_at(p) = NoTime
    \/ get_file_created_at(p) \notin dates

\* The filter of lines 1924-1949: TRUE when the path is to be processed.
ShouldProcess(p, dates) ==
    \/ get_file_created_at(p) = NoTime
    \/ Rounded(get_file_created_at(p)) \notin dates

\* start_watcher, line 1897
StartEnumerate ==
    /\ spc = "enumerate"
    /\ existing' \in load_existing_screenshots
    /\ spc' = "reconcile"
    /\ UNCHANGED <<fs, clock, dbVars, watchVars, delVars, cmdVars,
                   already, toProcess, batch, progress, statuses>>

\* start_watcher, lines 1899-1953; ok = FALSE is an Err of
\* load_all_entries_from_db.
StartReconcile ==
    \E ok \in BOOLEAN :
        LET dates == IF ok
                     THEN {Rounded(e.at) : e \in Range(load_all_entries_from_db(index))}
                     ELSE {}
        IN /\ spc = "reconcile"
           /\ already' = [ok |-> ok, dates |-> dates]
           /\ toProcess' = SelectSeq(existing, LAMBDA p : ShouldProcess(p, dates))
           /\ spc' = "mark"
           /\ UNCHANGED <<fs, clock, dbVars, watchVars, delVars, cmdVars,
                          existing, batch, progress, statuses>>

\* The paths marked when only the queued ones are.
MarkedQueued(all, queued) == Range(queued)

\* lines 1958-1960: the paths inserted into known_map, "whether we process
\* them or not".
MarkedAtStartup(all, queued) == Range(all)

\* start_watcher, lines 1955-1961
StartMark ==
    /\ spc = "mark"
    /\ known' = known \cup MarkedAtStartup(existing, toProcess)
    /\ spc' = "dispatch"
    /\ UNCHANGED <<fs, clock, dbVars, delVars, cmdVars, ignore, debounce, serial, events,
                   workers, invoked, evlog, seen, removed, envCount,
                   existing, already, toProcess, batch, progress, statuses>>

\* A batch-progress message; percent is kept in whole percents, and
\* eta_seconds, which depends on the time the items took, is left out.
Progress(total, completed, percent, inp) ==
    [total |-> total, completed |-> completed, percent |-> percent, in_progress |-> inp]
Terminal0 == Progress(0, 0, 100, FALSE)

\* start_watcher, lines 1963-1980
StartDispatch ==
    /\ spc = "dispatch"
    /\ IF toProcess # <<>>
       THEN /\ batch' = [batch EXCEPT !.pc = "start"]
            /\ progress' = progress
       ELSE /\ batch' = batch
            /\ progress' = Append(progress, Terminal0)
    /\ spc' = "watch"
    /\ UNCHANGED <<fs, clock, dbVars, watchVars, delVars, cmdVars,
                   existing, already, toProcess, statuses>>

\* start_watcher, lines 1982-1988: the watch directories are registered;
\* the thread then serves the events (lines 1990-1995).
StartWatch ==
    /\ spc = "watch"
    /\ spc' = "loop"
    /\ UNCHANGED <<fs, clock, dbVars, watchVars, delVars, cmdVars,
                   existing, already, toProcess, batch, progress, statuses>>

\* The end of an item without the progress message.
ItemDoneSilent(b, total) ==
    [b |-> [b EXCEPT !.completed = @ + 1, !.i = @ + 1,
                     !.pc = IF b.i = total THEN "done" ELSE "wait"],
     msgs |-> <<>>]

\* process_existing_screenshots, lines 1802-1816 and 1857-1870: the end of
\* an item: the counter, the progress message, the next path.
ItemDone(b, total) ==
    [b |-> [b EXCEPT !.completed = @ + 1, !.i = @ + 1,
                     !.pc = IF b.i = total THEN "done" ELSE "wait"],
     msgs |-> <<Progress(total, b.completed + 1,
                         ((b.completed + 1) * 100) \div total,
                         b.completed + 1 < total)>>]

\* process_existing_screenshots, lines 1767-1794
BatchBegin ==
    /\ batch.pc = "start"
    /\ IF Len(toProcess) = 0
       THEN /\ progress' = Append(progress, Terminal0)
            /\ batch' = [batch EXCEPT !.pc = "done"]
       ELSE /\ progress' = Append(progress, Progress(Len(toProcess), 0, 0, TRUE))
            /\ batch' = [batch EXCEPT !.pc = "wait", !.i = 1, !.completed = 0]
    /\ UNCHANGED <<fs, clock, dbVars, watchVars, delVars, cmdVars,
                   spc, existing, already, toProcess, statuses>>

\* process_existing_screenshots, lines 1797-1817: wait_for_file on the path
BatchWait ==
    /\ batch.pc = "wait"
    /\ \E ok \in WaitOutcomes(toProcess[batch.i]) :
        LET p == toProcess[batch.i]
            d == ItemDone(batch, Len(toProcess))
        IN /\ IF ok
              THEN /\ batch' = [batch EXCEPT !.pc = "ocr"]
                   /\ UNCHANGED <<progress, statuses>>
              ELSE /\ batch' = d.b
                   /\ progress' = progress \o d.msgs
                   /\ statuses' = Append(statuses, Status(p, TRUE, NoText))
           /\ UNCHANGED <<fs, clock, dbVars, watchVars, delVars, cmdVars,
                          spc, existing, already, toProcess>>

\* process_existing_screenshots, lines 1819-1821 and 1851-1870: run_ocr
BatchOcr ==
    /\ batch.pc = "ocr"
    /\ \E r \in OcrOutcomes(toProcess[batch.i]) :
        LET p == toProcess[batch.i]
            d == ItemDone(batch, Len(toProcess))
        IN /\ IF r.ok
              THEN /\ batch' = [batch EXCEPT !.pc = "save", !.text = trim(r.text)]
                   /\ UNCHANGED <<progress, statuses>>
              ELSE /\ batch' = d.b
                   /\ progress' = progress \o d.msgs
                   /\ statuses' = Append(statuses, Status(p, TRUE, NoText))
           /\ UNCHANGED <<fs, clock, dbVars, watchVars, delVars, cmdVars,
                          spc, existing, already, toProcess>>

\* process_existing_screenshots, lines 1833-1849 and 1857-1870: the row is
\* written under the path the file has, and the item ends.
BatchSave ==
    /\ batch.pc = "save"
    /\ \E ok \in BOOLEAN :
        LET p == toProcess[batch.i]
            d == ItemDone(batch, Len(toProcess))
        IN /\ save_entry_to_db(p, batch.text, CreatedAtOrNow(p), ok)
           /\ batch' = [d.b EXCEPT !.text = ""]
           /\ progress' = progress \o d.msgs
           /\ statuses' = Append(statuses, Status(p, FALSE, batch.text))
           /\ UNCHANGED <<fs, clock, watchVars, delVars, cmdVars,
                          spc, existing, already, toProcess>>

NextStart ==
    \/ StartEnumerate \/ StartReconcile \/ StartMark \/ StartDispatch \/ StartWatch
    \/ BatchBegin \/ BatchWait \/ BatchOcr \/ BatchSave

SpecStart == InitStart /\ [][NextStart]_vars

\* The startup thread serves events and the batch task, if any, has ended.
StartFinished == spc = "loop" /\ batch.pc \in {"off", "done"}

\* The creation time of p in whole seconds is that of a row of the index the
\* program started with.
Sec(ms) == ms \div 1000
IndexedSecond(p) ==
    /\ p \in DOMAIN fs
    /\ \E r \in StartIndex : Sec(r.created_at) = Sec(fs[p].ctime)
Reconciled == spc \notin {"enumerate", "reconcile"}

C6_OneRowPerFile ==
    StartFinished =>
        \A p \in Range(existing) :
            IF IndexedSecond(p)
            THEN /\ \E r \in index : Sec(r.created_at) = Sec(fs[p].ctime)
                 /\ Cardinality({r \in index : r.path = p}) <= 1
            ELSE Cardinality({r \in index : r.path = p}) = 1

\* C9: the batch-progress protocol.  Nothing to process: one terminal message
\* with total = 0.  Otherwise the first message has completed = 0 and
\* in_progress = true, one message follows each item that ended (each item
\* ends with one idle status, failed or not) with completed one higher and
\* in_progress = (completed < total), and the last message has
\* completed = total, percent = 100, in_progress = false.
C9_ProgressProtocol ==
    LET total == Len(toProcess)
    IN /\ (spc \in {"watch", "loop"} /\ total = 0) => progress = <<Terminal0>>
       /\ (total >= 1 /\ batch.pc \notin {"off", "start"}) =>
             /\ progress # <<>>
             /\ progress[1] = Progress(total, 0, 0, TRUE)
             /\ Len(progress) = 1 + Len(statuses)
             /\ \A k \in 2..Len(progress) :
                   /\ progress[k].total = total
                   /\ progress[k].completed = progress[k - 1].completed + 1
                   /\ progress[k].in_progress = (progress[k].completed < total)
       /\ (total >= 1 /\ batch.pc = "done") =>
             progress[Len(progress)] = Progress(total, total, 100, FALSE)
       /\ (total >= 1 /\ batch.pc \in {"off", "start"}) => progress = <<>>

\* C9 witness: a batch of two items has ended, one item failed and the other
\* was indexed.
C9_Witness ==
    /\ batch.pc = "done" /\ Len(toProcess) = 2
    /\ \E i, j \in 1..Len(statuses) : statuses[i].error /\ ~statuses[j].error
    /\ Len(progress) = 3

----------------------------------------------------------------------------
(* SpecWatch: the watcher thread serving events (handle_event) and the     *)
(* worker tasks it spawns (the debounce check, process_screenshot)          *)

DebounceMs    == 750    \* thread::sleep(Duration::from_millis(750))
IgnoreMs      == 5000   \* Duration::from_secs(5) of is_ignored
DebounceTicks == DebounceMs \div TickMs
IgnoreTicks   == IgnoreMs \div TickMs

MaxEnvEvents  == 2      \* file system changes the environment makes
MaxWorkers    == 3      \* tasks handle_event spawns

\* summarize_text, on the texts of the model
summarize_text(t) ==
    CASE t \in {"", "$ ls"} -> ""
      [] t \in {"3:41 PM", " 3:41 PM "} -> "3:41"
      [] t = "see https://a.io now" -> "see https://a.io now"
      [] t = "const x = 42; function f(){}" -> "const function"
      [] OTHER -> "quarterly figures were stable across"

\* slugify_text, on the summaries of the model
slugify_text(s) ==
    CASE s = "" -> "screenshot"
      [] s = "3:41" -> "341"
      [] s = "see https://a.io now" -> "see-httpsaio-now"
      [] s = "const function" -> "const-function"
      [] OTHER -> "quarterly-figures-were-stable-across"

\* The path rename_with_text builds: "{slug}-{stamp}.png" in the parent
\* directory of path.
RenameTarget(p, t) == Path(p.dir, slugify_text(summarize_text(t)), NowSecs, "png")

\* A notify event; cause says where it comes from: a change made by a
\* screenshot tool or the user ("tool"), or the fs::rename of the pipeline
\* ("rename").
Ev(kind, paths, cause) == [kind |-> kind, paths |-> paths, cause |-> cause]

\* The events the watcher receives for fs::rename(old, new): a Remove and a
\* Create, two name modifications, or one name modification with both paths.
RenameEvents(old, new) ==
    { <<Ev("Remove", <<old>>, "rename"), Ev("Create", <<new>>, "rename")>>,
      <<Ev("Modify", <<old>>, "rename"), Ev("Modify", <<new>>, "rename")>>,
      <<Ev("Modify", <<old, new>>, "rename")>> }

\* The ignore map after guard.retain(|_, seen| *seen >= cutoff)
Retain(ig) == [k \in {x \in DOMAIN ig : ig[x] >= clock - IgnoreTicks} |-> ig[k]]

\* is_ignored(ignore_map, path): the map it leaves and its result
is_ignored(ig, p) == [map |-> Retain(ig), hit |-> p \in DOMAIN Retain(ig)]

\* remember_ignore(ignore_map, path)
remember_ignore(ig, p) == MapPut(ig, p, clock)

\* A task spawned by handle_event: the path and the Instant (now) it
\* captured, the tick it was spawned at, its position, the text and the final
\* path of its pipeline run, whether its rename succeeded, the creation time
\* the file had when it was renamed, the created_at the run stores, and the
\* cause of the event behind it.
Worker(p, now, cause) ==
    [path |-> p, stamp |-> now, tick |-> clock, pc |-> "sleep", text |-> "",
     final |-> NoPath, renamed |-> FALSE, born |-> NoTime, created_at |-> NoTime,
     cause |-> cause]

\* The positions of a task inside process_screenshot
Running == {"called", "wait", "ocr", "rename", "finish"}

\* What handle_event reads and writes
WatchState ==
    [known |-> known, ignore |-> ignore, debounce |-> debounce, serial |-> serial,
     workers |-> workers, evlog |-> evlog]

\* handle_event, lines 1708-1744: the loop over the paths of a Create or
\* Modify event.
RECURSIVE HandlePaths(_, _, _)
HandlePaths(paths, st, cause) ==
    IF paths = <<>> THEN st
    ELSE LET p    == Head(paths)
             named == is_png(p) /\ ~is_hidden(p)
             ig   == IF named THEN is_ignored(st.ignore, p)
                     ELSE [map |-> st.ignore, hit |-> FALSE]
             skip == ~named \/ ig.hit \/ p \in st.known
             ig2  == is_ignored(ig.map, p)
             now  == st.serial + 1
             log  == IF p \in DOMAIN st.evlog THEN st.evlog[p] ELSE <<>>
             next ==
                 IF skip THEN [st EXCEPT !.ignore = ig.map]
                 ELSE IF ig2.hit THEN [st EXCEPT !.ignore = ig2.map]
                 ELSE [st EXCEPT !.ignore = ig2.map,
                                 !.serial = now,
                                 !.debounce = MapPut(@, p, now),
                                 !.workers = Append(@, Worker(p, now, cause)),
                                 !.evlog = MapPut(@, p, Append(log, clock))]
         IN HandlePaths(Tail(paths), next, cause)

\* A Remove event that marks nothing.
MarkNothing(kn, paths) == kn

\* lines 1695-1699: every path of a Remove event is inserted into known_map
MarkRemoved(kn, paths) == kn \cup Range(paths)

\* handle_event(app, event, debounce_map, ignore_map, known_map)
handle_event(ev, st) ==
    IF ev.kind = "Remove" THEN [st EXCEPT !.known = MarkRemoved(@, ev.paths)]
    ELSE IF ev.kind \notin {"Create", "Modify"} THEN st
    ELSE HandlePaths(ev.paths, st, ev.cause)

\* The files a screenshot tool or the user may create, write or remove while
\* the watcher runs (wKnown was on disk at startup), and the texts an OCR
\* pass may read in a file a tool creates.
wA      == Path("Desktop", "Screenshot 1", 0, "png")
wKnown  == Path("Screenshots", "Screenshot 3", 0, "png")
ToolPaths == {wA, wKnown}
ToolTexts == {"", " 3:41 PM ", "see https://a.io now"}

\* The file a tool writes now.
NewFile(t) == File(NowMs, t, "h1")

\* The program after start_watcher has reached its loop with wKnown on disk
\* and indexed.
InitWatch ==
    /\ fs = [p \in {wKnown} |-> File(EpochMs, "$ ls", "h3")]
    /\ clock = 0
    /\ index = {[DelRow(1, wKnown) EXCEPT !.created_at = EpochMs]}
    /\ nextId = 2 /\ lastCall = NoCall
    /\ known = {wKnown}
    /\ ignore = EmptyMap /\ debounce = EmptyMap /\ serial = 0
    /\ events = <<>> /\ workers = <<>>
    /\ invoked = EmptyMap /\ evlog = EmptyMap /\ seen = {}
    /\ removed = EmptyMap /\ envCount = 0
    /\ spc = "loop" /\ existing = <<wKnown>>
    /\ already = [ok |-> TRUE, dates |-> {EpochMs}]
    /\ toProcess = <<>> /\ batch = BatchOff
    /\ progress = <<Terminal0>> /\ statuses = <<>>
    /\ DelIdle /\ CmdIdle

\* A tool creates a file in a watch directory; the watcher sends the events
\* of a directory once the directory is registered (line 1983).
ToolCreate ==
    \E p \in ToolPaths, t \in ToolTexts :
        /\ spc = "loop"
        /\ envCount < MaxEnvEvents
        /\ p \notin DOMAIN fs
        /\ fs' = MapPut(fs, p, NewFile(t))
        /\ events' = Append(events, Ev("Create", <<p>>, "tool"))
        /\ envCount' = envCount + 1
        /\ UNCHANGED <<clock, dbVars, startVars, delVars, cmdVars,
                       known, ignore, debounce, serial, workers, invoked, evlog, seen, removed>>

\* A tool writes to a file or reads it.
ToolTouch ==
    \E p \in ToolPaths, kind \in {"Modify", "Access"} :
        /\ spc = "loop"
        /\ envCount < MaxEnvEvents
        /\ p \in DOMAIN fs
        /\ events' = Append(events, Ev(kind, <<p>>, "tool"))
        /\ envCount' = envCount + 1
        /\ UNCHANGED <<fs, clock, dbVars, startVars, delVars, cmdVars,
                       known, ignore, debounce, serial, workers, invoked, evlog, seen, removed>>

\* The user removes a file.
ToolRemove ==
    \E p \in ToolPaths :
        /\ spc = "loop"
        /\ envCount < MaxEnvEvents
        /\ p \in DOMAIN fs
        /\ fs' = MapDel(fs, p)
        /\ events' = Append(events, Ev("Remove", <<p>>, "tool"))
        /\ envCount' = envCount + 1
        /\ UNCHANGED <<clock, dbVars, startVars, delVars, cmdVars,
                       known, ignore, debounce, serial, workers, invoked, evlog, seen, removed>>

\* start_watcher, lines 1990-1995: the next event of the channel is handled.
HandleEvent ==
    /\ spc = "loop"
    /\ events # <<>>
    /\ LET st == handle_event(Head(events), WatchState)
       IN /\ Len(st.workers) <= MaxWorkers
          /\ known' = st.known
          /\ ignore' = st.ignore
          /\ debounce' = st.debounce
          /\ serial' = st.serial
          /\ workers' = st.workers
          /\ evlog' = st.evlog
    /\ seen' = IF Head(events).kind \in {"Create", "Modify"}
               THEN seen \cup Range(Head(events).paths) ELSE seen
    /\ removed' =
          LET ps == Range(Head(events).paths)
          IN CASE Head(events).kind = "Remove" ->
                    [p \in DOMAIN removed \cup ps |->
                        IF p \in DOMAIN removed THEN removed[p] ELSE FALSE]
               [] Head(events).kind \in {"Create", "Modify"} ->
                    [p \in DOMAIN removed |-> removed[p] \/ p \in ps]
               [] OTHER -> removed
    /\ events' = Tail(events)
    /\ UNCHANGED <<fs, clock, dbVars, startVars, delVars, cmdVars, invoked, envCount>>

\* The test that every task passes.
should_process_always(w) == TRUE

\* lines 1734-1737: guard.get(&path).map(|seen| *seen == now).unwrap_or(false)
should_process(w) == w.path \in DOMAIN debounce /\ debounce[w.path] = w.stamp

Count(p) == IF p \in DOMAIN invoked THEN invoked[p] ELSE 0

\* lines 1733-1741: the task has slept 750 ms; it calls process_screenshot
\* when its Instant is the one the debounce map holds for its path.
WorkerWake ==
    \E i \in 1..Len(workers) :
        LET w == workers[i]
        IN /\ w.pc = "sleep"
           /\ clock >= w.tick + DebounceTicks
           /\ IF should_process(w)
              THEN /\ workers' = [workers EXCEPT ![i].pc = "called"]
                   /\ invoked' = MapPut(invoked, w.path, Count(w.path) + 1)
              ELSE /\ workers' = [workers EXCEPT ![i].pc = "dropped"]
                   /\ invoked' = invoked
           /\ UNCHANGED <<fs, clock, dbVars, startVars, delVars, cmdVars,
                          known, ignore, debounce, serial, events, evlog, seen, removed, envCount>>

\* process_screenshot, lines 1555-1565
WorkerBegin ==
    \E i \in 1..Len(workers) :
        LET w == workers[i]
        IN /\ w.pc = "called"
           /\ known' = known \cup {w.path}
           /\ IF w.path \in DOMAIN fs
              THEN /\ workers' = [workers EXCEPT ![i].pc = "wait"]
                   /\ statuses' = statuses
              ELSE /\ workers' = [workers EXCEPT ![i].pc = "done"]
                   /\ statuses' = Append(statuses, Status(w.path, FALSE, NoText))
           /\ UNCHANGED <<fs, clock, dbVars, delVars, cmdVars, ignore, debounce, serial,
                          events, invoked, evlog, seen, removed, envCount,
                          spc, existing, already, toProcess, batch, progress>>

\* process_screenshot, lines 1567-1571
WorkerWait ==
    \E i \in 1..Len(workers) :
        /\ workers[i].pc = "wait"
        /\ \E ok \in WaitOutcomes(workers[i].path) :
              IF ok
              THEN /\ workers' = [workers EXCEPT ![i].pc = "ocr"]
                   /\ statuses' = statuses
              ELSE /\ workers' = [workers EXCEPT ![i].pc = "done"]
                   /\ statuses' = Append(statuses, Status(workers[i].path, TRUE, NoText))
        /\ UNCHANGED <<fs, clock, dbVars, delVars, cmdVars, known, ignore, debounce, serial,
                       events, invoked, evlog, seen, removed, envCount,
                       spc, existing, already, toProcess, batch, progress>>

\* process_screenshot, lines 1573-1575 and 1658-1681: run_ocr; when it
\* fails the row is written with empty text under the path.
WorkerOcr ==
    \E i \in 1..Len(workers) :
        /\ workers[i].pc = "ocr"
        /\ \E r \in OcrOutcomes(workers[i].path), ok \in BOOLEAN :
              LET w == workers[i]
                  c == CreatedAtOrNow(w.path)
              IN IF r.ok
                 THEN /\ ok
                      /\ workers' = [workers EXCEPT ![i].pc = "rename",
                                                    ![i].text = trim(r.text)]
                      /\ UNCHANGED <<dbVars, statuses>>
                 ELSE /\ save_entry_to_db(w.path, "", c, ok)
                      /\ workers' = [workers EXCEPT ![i].pc = "done",
                                                    ![i].created_at = c]
                      /\ statuses' = Append(statuses, Status(w.path, TRUE, NoText))
        /\ UNCHANGED <<fs, clock, delVars, cmdVars, known, ignore, debounce, serial,
                       events, invoked, evlog, seen, removed, envCount,
                       spc, existing, already, toProcess, batch, progress>>

\* rename_with_text(path, text), called at line 1614: fs::rename moves the
\* file to the target, replacing a file that is there, and the watcher is
\* sent the events of the move; it fails when the file is gone, and may fail
\* otherwise.
WorkerRename ==
    \E i \in 1..Len(workers) :
        /\ workers[i].pc = "rename"
        /\ \E ok \in BOOLEAN :
              LET w   == workers[i]
                  new == RenameTarget(w.path, w.text)
              IN IF ok
                 THEN /\ w.path \in DOMAIN fs
                      /\ fs' = MapPut(MapDel(fs, w.path), new, fs[w.path])
                      /\ \E evs \in RenameEvents(w.path, new) : events' = events \o evs
                      /\ workers' = [workers EXCEPT ![i].pc = "finish",
                                                    ![i].final = new,
                                                    ![i].renamed = TRUE,
                                                    ![i].born = fs[w.path].ctime]
                 ELSE /\ workers' = [workers EXCEPT ![i].pc = "finish",
                                                    ![i].final = w.path]
                      /\ UNCHANGED <<fs, events>>
        /\ UNCHANGED <<clock, dbVars, startVars, delVars, cmdVars, known, ignore, debounce,
                       serial, invoked, evlog, seen, removed, envCount>>

\* process_screenshot, lines 1615-1656: the paths are marked known and
\* ignored, created_at is read from the metadata of path, the row is written
\* under the final path and the idle status is emitted.
WorkerFinish ==
    \E i \in 1..Len(workers) :
        /\ workers[i].pc = "finish"
        /\ \E ok \in BOOLEAN :
              LET w == workers[i]
                  c == CreatedAtOrNow(w.path)
              IN /\ known' = IF w.renamed THEN known \cup {w.path, w.final}
                             ELSE known \cup {w.path}
                 /\ ignore' = IF w.renamed
                              THEN remember_ignore(
                                       remember_ignore(remember_ignore(ignore, w.final),
                                                       w.path), w.path)
                              ELSE remember_ignore(ignore, w.path)
                 /\ save_entry_to_db(w.final, w.text, c, ok)
                 /\ workers' = [workers EXCEPT ![i].pc = "done", ![i].created_at = c]
                 /\ statuses' = Append(statuses, Status(w.final, FALSE, w.text))
        /\ UNCHANGED <<fs, clock, delVars, cmdVars, debounce, serial,
                       events, invoked, evlog, seen, removed, envCount,
                       spc, existing, already, toProcess, batch, progress>>

WatchTick ==
    /\ Tick
    /\ UNCHANGED <<fs, dbVars, watchVars, startVars, delVars, cmdVars>>

NextWatch ==
    \/ ToolCreate \/ ToolTouch \/ ToolRemove
    \/ HandleEvent
    \/ WorkerWake \/ WorkerBegin \/ WorkerWait \/ WorkerOcr \/ WorkerRename
    \/ WorkerFinish
    \/ WatchTick

SpecWatch == InitWatch /\ [][NextWatch]_vars

\* The events stamped on a path lie within one debounce window.
InWindow(log) == log[Len(log)] - log[1] < DebounceTicks
\* Every task spawned for p has made its debounce check.
Settled(p) == \A i \in 1..Len(workers) : workers[i].path = p => workers[i].pc # "sleep"

\* C1: for a path that was neither known nor ignored when its events were
\* handled, one Create event, or N >= 2 Create/Modify events all handled
\* within one 750 ms window, lead to exactly one process_screenshot call: never
\* more than one, and one once every debounce task of the path has run; the
\* task that proceeds is the one whose Instant the debounce map still holds.
C1_Quiescence ==
    \A p \in DOMAIN evlog :
        InWindow(evlog[p]) =>
            /\ Count(p) <= 1
            /\ Settled(p) => Count(p) = 1
            /\ \A i \in 1..Len(workers) :
                  (workers[i].path = p /\ workers[i].pc \notin {"sleep", "dropped"})
                      => workers[i].stamp = debounce[p]

\* C1 witness: two events on a path were handled at different ticks of one
\* window, both tasks have run, and process_screenshot was called once.
C1_Witness ==
    \E p \in DOMAIN evlog :
        /\ Len(evlog[p]) = 2 /\ evlog[p][1] < evlog[p][2]
        /\ InWindow(evlog[p])
        /\ Settled(p)
        /\ Count(p) = 1

\* C2: there are never two process_screenshot calls for the same path that
\* are both running.
C2_OneRunPerPath ==
    \A i, j \in 1..Len(workers) :
        (i # j /\ workers[i].path = workers[j].path)
            => ~(workers[i].pc \in Running /\ workers[j].pc \in Running)

\* C3: an event that results from the pipeline's own fs::rename never leads
\* to a process_screenshot call, neither for the new path nor for the
\* original one.
C3_NoFeedbackRun ==
    \A i \in 1..Len(workers) :
        workers[i].cause = "rename" => workers[i].pc \in {"sleep", "dropped"}

\* C4: when the pipeline has renamed a file whose creation time is T, the
\* created_at it stores is T.
C4_CreatedAtPreserved ==
    \A i \in 1..Len(workers) :
        (workers[i].pc = "done" /\ workers[i].renamed)
            => workers[i].created_at = workers[i].born

\* C8: whenever the pipeline's upsert writes a row for a text whose trimmed
\* length is below 10 (the empty text included), the row holds that text and
\* the tag list ["Images"], and load_all_entries returns it.
ShortTextIndexed ==
    (/\ lastCall'.n = lastCall.n + 1
     /\ lastCall'.ok
     /\ Sig(lastCall'.text).len < 10)
        => \E r \in index' :
              /\ r.path = lastCall'.path
              /\ r.text = lastCall'.text
              /\ r.tags = <<"Images">>
              /\ InSeq(DbEntry(r), load_all_entries_from_db(index'))
C8_EmptyIsImage == [][ShortTextIndexed]_vars

\* C8 witness: OCR read the empty text in a stable file and the run has
\* written its row, tagged Images, next to the row of another file.
C8_Witness ==
    \E i \in 1..Len(workers) :
        /\ workers[i].pc = "done" /\ workers[i].final # NoPath
        /\ workers[i].text = ""
        /\ lastCall.ok /\ lastCall.path = workers[i].final
        /\ \E r \in index : r.path = workers[i].final /\ r.tags = <<"Images">>
        /\ Cardinality(index) >= 2

----------------------------------------------------------------------------
(* SpecSim: perceptual hashes, hamming_distance and the                    *)
(* find_similar_screenshots command                                        *)

HashSide  == 16      \* hash_size(16, 16)
\* The bytes of a hash of the default size: one bit per cell.
HashWidth == (HashSide * HashSide) \div 8

MaxHashLen   == 2    \* length of the short byte strings compared
MaxSimRows   == 3    \* rows of the index find_similar_screenshots is called on

\* a & !b on bytes
RECURSIVE andnot8(_, _)
andnot8(a, b) ==
    IF a = 0 THEN 0
    ELSE (IF a % 2 = 1 /\ b % 2 = 0 THEN 1 ELSE 0) + 2 * andnot8(a \div 2, b \div 2)

\* a ^ b on bytes
RECURSIVE xor8(_, _)
xor8(a, b) ==
    IF a = 0 /\ b = 0 THEN 0
    ELSE (IF a % 2 # b % 2 THEN 1 ELSE 0) + 2 * xor8(a \div 2, b \div 2)

\* u8::count_ones
RECURSIVE count_ones(_)
count_ones(x) == IF x = 0 THEN 0 ELSE (x % 2) + count_ones(x \div 2)

Min(a, b) == IF a <= b THEN a ELSE b

\* hamming_distance(hash1, hash2): zip stops at the shorter slice
RECURSIVE SumBits(_, _, _)
SumBits(h1, h2, n) ==
    IF n = 0 THEN 0 ELSE SumBits(h1, h2, n - 1) + count_ones(xor8(h1[n], h2[n]))
hamming_distance(h1, h2) == SumBits(h1, h2, Min(Len(h1), Len(h2)))

\* The bytes behind the hash names of the model: h2 is 6 bits from h1, h5 is
\* 10 bits from h1, h3 is 80 bits from h1, h4 is the complement of h1.
HashBytes(h) ==
    CASE h = "h1" -> [i \in 1..HashWidth |-> 0]
      [] h = "h2" -> [i \in 1..HashWidth |-> IF i = 1 THEN 63 ELSE 0]
      [] h = "h3" -> [i \in 1..HashWidth |-> IF i <= 10 THEN 255 ELSE 0]
      [] h = "h4" -> [i \in 1..HashWidth |-> 255]
      [] h = "h5" -> [i \in 1..HashWidth |-> IF i = 1 THEN 255 ELSE IF i = 2 THEN 3 ELSE 0]
      [] OTHER -> <<>>

\* Option<u32>
None    == [some |-> FALSE, v |-> 0]
Some(v) == [some |-> TRUE, v |-> v]
\* threshold.unwrap_or(10)
DefaultThreshold == 10
unwrap_or(o, d) == IF o.some THEN o.v ELSE d

\* The rows in the order the SELECT without ORDER BY scans them: by rowid.
RECURSIVE ByRowId(_)
ByRowId(rows) ==
    IF rows = {} THEN <<>>
    ELSE LET r == CHOOSE x \in rows : \A y \in rows : x.id <= y.id
         IN <<r>> \o ByRowId(rows \ {r})

\* The indices of S in ascending order
RECURSIVE Ascending(_)
Ascending(S) ==
    IF S = {} THEN <<>>
    ELSE LET m == CHOOSE x \in S : \A y \in S : x <= y
         IN <<m>> \o Ascending(S \ {m})

\* A group of any size is kept.
KeepAnyGroup(group) == TRUE

\* if group.len() > 1
KeepGroup(group) == Len(group) > 1

\* The inner loop without its test of assigned[j].
AnyRow(j, assigned) == TRUE

\* lines 2142-2144: if assigned[j] { continue; }
Unassigned(j, assigned) == j \notin assigned

\* find_similar_screenshots, lines 2133-2157: the loop from index i on
RECURSIVE GroupFrom(_, _, _, _)
GroupFrom(i, entries, assigned, threshold) ==
    IF i > Len(entries) THEN <<>>
    ELSE IF i \in assigned THEN GroupFrom(i + 1, entries, assigned, threshold)
    ELSE LET near == {j \in (i + 1)..Len(entries) :
                         /\ Unassigned(j, assigned)
                         /\ hamming_distance(HashBytes(entries[i].perceptual_hash),
                                             HashBytes(entries[j].perceptual_hash))
                                <= threshold}
             group == <<i>> \o Ascending(near)
             rest  == GroupFrom(i + 1, entries, assigned \cup {i} \cup near, threshold)
         IN IF KeepGroup(group)
            THEN <<[k \in 1..Len(group) |-> entries[group[k]].path]>> \o rest
            ELSE rest

\* find_similar_screenshots(app, threshold)
find_similar_screenshots(rows, threshold) ==
    GroupFrom(1, ByRowId({r \in rows : r.perceptual_hash # NoHash}), {},
              unwrap_or(threshold, DefaultThreshold))

\* The hashes hamming_distance is applied to: the named hashes of the
\* default size and byte strings of up to MaxHashLen bytes.
ByteVals == {0, 1, 170, 255}
SimHashNames == {"h1", "h2", "h3", "h4", "h5"}
SimHashes ==
    {HashBytes(h) : h \in SimHashNames}
        \cup UNION {[1..n -> ByteVals] : n \in 0..MaxHashLen}

\* The rows find_similar_screenshots is called on: rows 1..MaxSimRows, each
\* with one of the named hashes or with NULL.
SimPath(i) == Path("Desktop", "shot", i, "png")
SimRow(i, h) == [DelRow(i, SimPath(i)) EXCEPT !.perceptual_hash = h]
SimIndexes ==
    {{SimRow(i, f[i]) : i \in 1..MaxSimRows} :
        f \in [1..MaxSimRows -> {"h1", "h2", "h3", "h5", NoHash}]}
SimThresholds == {None, Some(0), Some(6), Some(9), Some(80)}

InitSim ==
    /\ fs = EmptyMap
    /\ clock = 0
    /\ index \in SimIndexes
    /\ nextId = MaxSimRows + 1 /\ lastCall = NoCall
    /\ WatchIdle /\ StartIdle /\ DelIdle /\ CmdIdle

\* hamming_distance is applied to two hashes.
CallHamming ==
    \E a \in SimHashes, b \in SimHashes :
        /\ cmd.op = "none"
        /\ cmd' = [op |-> "hamming_distance", a |-> a, b |-> b]
        /\ out' = hamming_distance(a, b)
        /\ UNCHANGED <<fs, clock, dbVars, watchVars, startVars, delVars>>

\* The find_similar_screenshots command is invoked.
CallFindSimilar ==
    \E th \in SimThresholds :
        /\ cmd.op = "none"
        /\ cmd' = [op |-> "find_similar_screenshots", threshold |-> th]
        /\ out' = find_similar_screenshots(index, th)
        /\ UNCHANGED <<fs, clock, dbVars, watchVars, startVars, delVars>>

NextSim == CallHamming \/ CallFindSimilar

SpecSim == InitSim /\ [][NextSim]_vars

\* C11: find_similar_screenshots returns only groups of two or more paths;
\* the groups come in the row order of their seeds and each group starts with
\* its seed, followed by later rows within the threshold of the seed; three
\* rows of which the first two are within the threshold and the third is
\* farther from both give exactly the group of the first two; without an
\* argument the threshold is 10.
C11_SimilarGroups ==
    cmd.op = "find_similar_screenshots" =>
        LET entries == ByRowId({r \in index : r.perceptual_hash # NoHash})
            th      == IF cmd.threshold.some THEN cmd.threshold.v ELSE 10
            Pos(p)  == CHOOSE i \in 1..Len(entries) : entries[i].path = p
            D(i, j) == hamming_distance(HashBytes(entries[i].perceptual_hash),
                                        HashBytes(entries[j].perceptual_hash))
        IN /\ \A g \in 1..Len(out) : Len(out[g]) >= 2
           /\ \A g, h \in 1..Len(out) : g < h => Pos(out[g][1]) < Pos(out[h][1])
           /\ \A g \in 1..Len(out) : \A k \in 2..Len(out[g]) :
                 /\ Pos(out[g][1]) < Pos(out[g][k])
                 /\ D(Pos(out[g][1]), Pos(out[g][k])) <= th
           /\ (/\ Len(entries) = 3
               /\ D(1, 2) <= th /\ D(1, 3) > th /\ D(2, 3) > th)
                 => out = << <<entries[1].path, entries[2].path>> >>
           /\ ~cmd.threshold.some => out = find_similar_screenshots(index, Some(10))

\* C11 witness: the command was called without a threshold on three hashed
\* rows, the first two 6 bits apart and the third 80 and 74 bits from them,
\* and returned the group of the first two.
C11_Witness ==
    /\ cmd.op = "find_similar_screenshots" /\ ~cmd.threshold.some
    /\ index = {SimRow(1, "h1"), SimRow(2, "h2"), SimRow(3, "h3")}
    /\ out = << <<SimPath(1), SimPath(2)>> >>

\* C17: hamming_distance is symmetric, is 0 for identical hashes and is at
\* most 256 for two hashes of 32 bytes.
C17_HammingMetric ==
    cmd.op = "hamming_distance" =>
        /\ out = hamming_distance(cmd.b, cmd.a)
        /\ cmd.a = cmd.b => out = 0
        /\ (Len(cmd.a) = 32 /\ Len(cmd.b) = 32) => out <= 256

\* C17 witness: two hashes of the default size that differ in every bit were
\* compared.
C17_Witness ==
    /\ cmd.op = "hamming_distance"
    /\ Len(cmd.a) = 32 /\ Len(cmd.b) = 32
    /\ out = 256

----------------------------------------------------------------------------
(* SpecTag: detect_collections on the values of the tests of its first     *)
(* four rules                                                               *)

\* The tests of lines 509-566 that vary here; the other tests of these rules
\* (has_message_apps, has_read_receipts, has_conversation_indicators,
\* has_casual_greetings, has_date_headers, has_emoji_like, has_indentation,
\* has_design_tools, has_design_terms, has_receipt_words) are false.
TagConds ==
    [has_message_bubbles : BOOLEAN, has_any_timestamp : BOOLEAN,
     has_chat_words : BOOLEAN, has_questions : BOOLEAN,
     has_code_keywords : BOOLEAN, has_code_symbols : BOOLEAN,
     has_comments : BOOLEAN, has_colors : BOOLEAN,
     has_prices : BOOLEAN, has_dates : BOOLEAN,
     has_browser : BOOLEAN, has_terminal : BOOLEAN]

\* lines 509 and 516-522
MessagesRule(f) ==
    \/ f.has_message_bubbles
    \/ f.has_any_timestamp
    \/ FALSE \/ FALSE
    \/ (f.has_chat_words /\ (f.has_questions \/ FALSE))
    \/ (f.has_questions /\ FALSE)
    \/ (FALSE /\ f.has_any_timestamp)
    \/ (FALSE /\ f.has_questions)

\* line 539
CodeRule(f) == f.has_code_keywords /\ (f.has_code_symbols \/ FALSE \/ f.has_comments)

\* line 553
DesignRule(f) == f.has_colors \/ FALSE \/ (FALSE /\ FALSE)

\* line 569
ReceiptsRule(f) == f.has_prices /\ (FALSE \/ f.has_dates)

\* lines 628-630
LikelyMessage(f) ==
    \/ f.has_any_timestamp \/ f.has_chat_words \/ f.has_message_bubbles
    \/ f.has_questions

\* The values of the conditions of detect_collections for a text of 20
\* characters on which the tests have the values f.
SigOf(f) ==
    [len |-> 20, bubbles |-> f.has_message_bubbles,
     secondary |-> MessagesRule(f) /\ ~f.has_message_bubbles,
     code |-> CodeRule(f), design |-> DesignRule(f), receipts |-> ReceiptsRule(f),
     browser |-> f.has_browser, terminal |-> f.has_terminal, errors |-> FALSE,
     likelyMsg |-> LikelyMessage(f), docLike |-> FALSE, minimal |-> TRUE,
     uiOverlay |-> FALSE, ocrNoise |-> FALSE, urls |-> <<>>, emails |-> <<>>]

InitTag ==
    /\ fs = EmptyMap
    /\ clock = 0
    /\ DbIdle /\ WatchIdle /\ StartIdle /\ DelIdle /\ CmdIdle

\* detect_collections is applied to a text.
CallDetect ==
    \E f \in TagConds :
        /\ cmd.op = "none"
        /\ cmd' = [op |-> "detect_collections", f |-> f]
        /\ out' = classify(SigOf(f))
        /\ UNCHANGED <<fs, clock, dbVars, watchVars, startVars, delVars>>

NextTag == CallDetect

SpecTag == InitTag /\ [][NextTag]_vars

\* C12: a text that matches both the Messages rule and the Code rule is
\* tagged exactly ["Messages"]; the rules Messages, Code, Design, Receipts are
\* tested in this order and the first that matches gives the only tag.
C12_ClassifierPriority ==
    cmd.op = "detect_collections" =>
        LET f == cmd.f
        IN /\ (MessagesRule(f) /\ CodeRule(f)) => out = <<"Messages">>
           /\ MessagesRule(f) => out = <<"Messages">>
           /\ (~MessagesRule(f) /\ CodeRule(f)) => out = <<"Code">>
           /\ (~MessagesRule(f) /\ ~CodeRule(f) /\ DesignRule(f)) => out = <<"Design">>
           /\ (~MessagesRule(f) /\ ~CodeRule(f) /\ ~DesignRule(f) /\ ReceiptsRule(f))
                 => out = <<"Receipts">>

\* C12 witness: a text with a timestamp, a code keyword and a code symbol,
\* that also matches the Design and the Receipts rule, was classified.
C12_Witness ==
    /\ cmd.op = "detect_collections"
    /\ ~cmd.f.has_message_bubbles /\ cmd.f.has_any_timestamp
    /\ CodeRule(cmd.f) /\ DesignRule(cmd.f) /\ ReceiptsRule(cmd.f)
    /\ out = <<"Messages">>

----------------------------------------------------------------------------
(* SpecClean: clean_ocr_text                                               *)

\* A text is a sequence of words, standing for the words joined by single
\* spaces.  The words: "hello" and "ok" pass the cleaner unchanged, "Read" is
\* removed by status_pattern, "6:19" by timestamp_pattern, "Imao" is rewritten
\* to "lmao" by fix_ocr_character_mistakes, "x" is a single character.
CleanWords == {"hello", "ok", "Read", "6:19", "Imao", "x"}
MaxTokens == 3       \* words of a text given to clean_ocr_text
CleanInputs == UNION {[1..n -> CleanWords] : n \in 0..MaxTokens}

\* str::len of the text of the words ws
RECURSIVE TextLen(_)
TextLen(ws) ==
    IF ws = <<>> THEN 0
    ELSE Len(Head(ws)) + (IF Len(ws) > 1 THEN 1 ELSE 0) + TextLen(Tail(ws))

\* fix_ocr_character_mistakes
fix_ocr_character_mistakes(ws) ==
    [i \in 1..Len(ws) |-> IF ws[i] = "Imao" THEN "lmao" ELSE ws[i]]

\* The substitution passes of lines 762-797: the timestamps and the UI words
\* are replaced by a space or by nothing, runs of whitespace become one space
\* and the text is trimmed.
Substitute(ws) == SelectSeq(ws, LAMBDA w : w \notin {"Read", "6:19"})

\* lines 803-819: the single characters are dropped when the words of two
\* or more characters are fewer than half of the words ("x" is no integer).
FilterNoise(ws) ==
    LET meaningful == Len(SelectSeq(ws, LAMBDA w : Len(w) >= 2))
    IN IF Len(ws) > 0 /\ meaningful < Len(ws) \div 2
       THEN SelectSeq(ws, LAMBDA w : Len(w) >= 2)
       ELSE ws

\* The cleaning passes of lines 762-825, on the text after the character fixes
CleaningPasses(ws) == FilterNoise(Substitute(ws))

\* The words of ws with w.len() >= 3 and two alphabetic characters or more
RealWords(ws) == Len(SelectSeq(ws, LAMBDA w : w \in {"hello", "Read", "Imao", "lmao"}))

\* (original_len as f64 * 0.3) as usize
ThirtyPercent(n) == (3 * n) \div 10

\* clean_ocr_text(text)
clean_ocr_text(ws) ==
    IF ws = <<>> THEN <<>>
    ELSE LET original_text == fix_ocr_character_mistakes(ws)
             original_len  == TextLen(original_text)
             final_cleaned == CleaningPasses(original_text)
         IN IF final_cleaned # <<>> /\ TextLen(final_cleaned) < ThirtyPercent(original_len)
            THEN original_text
            ELSE IF RealWords(final_cleaned) = 0 /\ RealWords(original_text) > 0
            THEN original_text
            ELSE final_cleaned

InitClean ==
    /\ fs = EmptyMap
    /\ clock = 0
    /\ DbIdle /\ WatchIdle /\ StartIdle /\ DelIdle /\ CmdIdle

\* clean_ocr_text is applied to a text.
CallClean ==
    \E ws \in CleanInputs :
        /\ cmd.op = "none"
        /\ cmd' = [op |-> "clean_ocr_text", text |-> ws]
        /\ out' = clean_ocr_text(ws)
        /\ UNCHANGED <<fs, clock, dbVars, watchVars, startVars, delVars>>

NextClean == CallClean

SpecClean == InitClean /\ [][NextClean]_vars

\* C13: when the cleaning passes leave a text shorter than 30% of the input
\* (the empty text included), clean_ocr_text returns the input text verbatim.
C13_CleanerRollback ==
    cmd.op = "clean_ocr_text" =>
        LET passed == CleaningPasses(fix_ocr_character_mistakes(cmd.text))
        IN 10 * TextLen(passed) < 3 * TextLen(cmd.text) => out = cmd.text

----------------------------------------------------------------------------
(* Error handling of the two pipelines                                     *)

\* A row of the index under path p
HasRow(idx, p) == \E r \in idx : r.path = p

\* The batch task ends an item whose file was stable (run_ocr was reached).
BatchItemEnds ==
    /\ batch.pc \in {"ocr", "save"}
    /\ batch'.completed = batch.completed + 1

\* Worker i leaves process_screenshot after run_ocr was reached.
WorkerRunEnds(i) ==
    /\ i <= Len(workers)
    /\ workers[i].pc \in {"ocr", "finish"}
    /\ workers'[i].pc = "done"

\* The save_entry_to_db call of this step failed.
SaveFailed == lastCall'.n = lastCall.n + 1 /\ ~lastCall'.ok

\* C14: a pipeline run on a file, by process_screenshot or by
\* process_existing_screenshots, in which the OCR stage, the rename or the
\* hashing fails still ends with a row of the index for the file (unless the
\* index write itself fails): under its path, or under its new path when
\* the rename succeeded.
StageErrorsCaptured ==
    /\ (BatchItemEnds /\ ~SaveFailed) => HasRow(index', toProcess[batch.i])
    /\ \A i \in 1..Len(workers) :
          (WorkerRunEnds(i) /\ ~SaveFailed) =>
              HasRow(index', IF workers[i].renamed THEN workers[i].final
                             ELSE workers[i].path)
C14_StageErrorsCaptured == [][StageErrorsCaptured]_vars

\* C15: when save_entry_to_db fails in a pipeline run, the idle ocr-status
\* event of the file carries an error, and the pipeline goes on: the batch
\* task turns to the next file or ends.
SaveFailureSurfaced ==
    SaveFailed =>
        /\ Len(statuses') = Len(statuses) + 1
        /\ statuses'[Len(statuses')].path = lastCall'.path
        /\ statuses'[Len(statuses')].error
        /\ batch.pc = "save" =>
              batch'.pc = IF batch.i = Len(toProcess) THEN "done" ELSE "wait"
C15_SaveFailureSurfaced == [][SaveFailureSurfaced]_vars

----------------------------------------------------------------------------
(* The order of load_all_entries *)

\* C16: load_all_entries returns the rows newest first: of two entries the
\* earlier one has the greater or equal created_at, as a number, whatever
\* created_at values the pipeline has written (milliseconds from the file
\* metadata, seconds when the metadata cannot be read).
C16_NewestFirst ==
    LET es == load_all_entries_from_db(index)
    IN \A i, j \in 1..Len(es) : i < j => es[i].at >= es[j].at

\* ---------------------------------------------------------------------
\* Order of the rename step
\* ---------------------------------------------------------------------

\* A step in which the i-th pipeline run issues fs::rename and it succeeds
RenameIssued(i) ==
    /\ i \in 1..Len(workers) /\ Len(workers') = Len(workers)
    /\ ~workers[i].renamed /\ workers'[i].renamed

\* C18: in a pipeline run that renames a file, the original path and the
\* target path are both in the known set and in the ignore map at the moment
\* fs::rename is issued.
MarkedBeforeRename ==
    \A i \in 1..Len(workers) :
        RenameIssued(i) =>
            /\ {workers[i].path, workers'[i].final} \subseteq known
            /\ {workers[i].path, workers'[i].final} \subseteq DOMAIN ignore

C18_MarkedBeforeRename == [][MarkedBeforeRename]_vars

----------------------------------------------------------------------------
(* SpecBoot: start_watcher from the enumeration of the files on disk to    *)
(* the event loop, with the batch task and the watcher's pipeline runs     *)

BootFiles == {sA, sC}

\* Files of BootFiles are on disk or not; sA, if there, was indexed by an
\* earlier run and is skipped, sC is queued for the batch task.  The program
\* is started when the files have been written, a debounce window before
\* the last tick.
InitBoot ==
    /\ \E S \in SUBSET BootFiles :
          fs = [p \in S \cup {sHidden, sNote} |-> StartFile(p)]
    /\ clock = MaxClock - DebounceTicks
    /\ index = StartIndex /\ nextId = 3 /\ lastCall = NoCall
    /\ WatchIdle /\ DelIdle /\ CmdIdle
    /\ spc = "enumerate"
    /\ existing = <<>>
    /\ already = [ok |-> FALSE, dates |-> {}]
    /\ toProcess = <<>>
    /\ batch = BatchOff
    /\ progress = <<>>
    /\ statuses = <<>>

\* A tool creates a file after the directories were read (line 1897) and
\* before they are registered with the watcher (line 1983): the file is not
\* in existing and the watcher sends no event for it.
GapCreate ==
    \E p \in BootFiles, t \in ToolTexts :
        /\ spc \in {"reconcile", "mark", "dispatch", "watch"}
        /\ p \notin DOMAIN fs
        /\ fs' = MapPut(fs, p, NewFile(t))
        /\ UNCHANGED <<clock, dbVars, watchVars, startVars, delVars, cmdVars>>

NextBoot == NextStart \/ NextWatch \/ GapCreate

SpecBoot == InitBoot /\ [][NextBoot]_vars

\* C19: every PNG path enumerated at startup, skipped or queued, is in the
\* known set before the first watch directory is registered, and no event on
\* such a path ever starts a pipeline run of the watcher.
C19_ExistingKnownBeforeWatch ==
    /\ spc \in {"watch", "loop"} => Range(existing) \subseteq known
    /\ \A i \in 1..Len(workers) : workers[i].path \notin Range(existing)
    /\ \A p \in Range(existing) : Count(p) = 0

\* C19 witness: the watcher runs, and handle_event has handled a Create or
\* Modify event on a path that was queued at startup and one on a path that
\* was skipped.
C19_Witness ==
    /\ spc = "loop" /\ events = <<>>
    /\ \E p \in seen : p \in Range(toProcess)
    /\ \E p \in seen : p \in Range(existing) /\ p \notin Range(toProcess)

----------------------------------------------------------------------------
(* SpecOcr: run_ocr_with_modes, one Tesseract attempt at a time            *)

\* psm_modes, lines 1179-1186
PsmModes == <<4, 11, 6, 3, 7, 13>>

\* line 1228: text_len > 20
GoodLength == 20

\* tesseract_paths of run_ocr (lines 1114-1120): the original image, and the
\* preprocessed one when preprocess_image succeeded.
ImageLists == {<<"original">>, <<"original", "preprocessed">>}

\* The trimmed lengths of the texts an attempt may read.
TextLens == {0, 7, GoodLength, GoodLength + 1}

\* The text Tesseract reads in an image under a mode, and its trimmed length
PsmText(img, psm, len) == [img |-> img, psm |-> psm, len |-> len]

\* best_result = String::new(), best_length = 0 (lines 1189-1190)
NoBest == PsmText("", 0, 0)

\* run_ocr_with_psm(image_path, psm, desc): Ok(text) or Err
PsmErr == [ok |-> FALSE]
PsmOutcomes(img, psm) ==
    {[ok |-> TRUE, text |-> PsmText(img, psm, n)] : n \in TextLens} \cup {PsmErr}

\* The results of run_ocr_with_modes: Ok(clean_ocr_text(best_result)), with
\* raw the best_result that is cleaned, or Err with the first error.
OcrOk(raw)    == [ok |-> TRUE, raw |-> raw]
OcrFailed(e)  == [ok |-> FALSE, last_error |-> e]

InitOcr ==
    /\ fs = EmptyMap
    /\ clock = 0
    /\ DbIdle /\ WatchIdle /\ StartIdle /\ DelIdle /\ CmdIdle

\* run_ocr_with_modes(original_path, image_paths) is called (lines 1174-1191)
OcrCall ==
    \E imgs \in ImageLists :
        /\ cmd.op = "none"
        /\ cmd' = [op |-> "run_ocr_with_modes", images |-> imgs, i |-> 1, j |-> 1,
                   best |-> NoBest, last_error |-> None, tried |-> <<>>]
        /\ out' = out
        /\ UNCHANGED <<fs, clock, dbVars, watchVars, startVars, delVars>>

\* The position of the loops after the attempt at (i, j)
NextAttempt(c) ==
    IF c.j < Len(PsmModes) THEN [c EXCEPT !.j = @ + 1]
    ELSE [c EXCEPT !.i = @ + 1, !.j = 1]

\* One iteration of the inner loop (lines 1199-1257): the outer loop is over
\* the images, the inner one over the modes.
OcrAttempt ==
    /\ cmd.op = "run_ocr_with_modes" /\ out = <<>>
    /\ cmd.i <= Len(cmd.images)
    /\ LET img == cmd.images[cmd.i]
           psm == PsmModes[cmd.j]
           c   == [cmd EXCEPT !.tried = Append(@, <<img, psm>>)]
       IN \E r \in PsmOutcomes(img, psm) :
             IF r.ok
             THEN LET best == IF r.text.len > c.best.len THEN r.text ELSE c.best
                  IN IF r.text.len > GoodLength
                     THEN /\ cmd' = [c EXCEPT !.best = best]
                          /\ out' = OcrOk(best)
                     ELSE /\ cmd' = NextAttempt([c EXCEPT !.best = best])
                          /\ out' = out
             ELSE /\ cmd' = NextAttempt(
                              [c EXCEPT !.last_error =
                                   IF @.some THEN @ ELSE Some(<<img, psm>>)])
                  /\ out' = out
    /\ UNCHANGED <<fs, clock, dbVars, watchVars, startVars, delVars>>

\* lines 1260-1289: the loops are over; the best result, if any, is cleaned
\* and returned.
OcrReturn ==
    /\ cmd.op = "run_ocr_with_modes" /\ out = <<>>
    /\ cmd.i > Len(cmd.images)
    /\ out' = IF cmd.best.len > 0 THEN OcrOk(cmd.best) ELSE OcrFailed(cmd.last_error)
    /\ cmd' = cmd
    /\ UNCHANGED <<fs, clock, dbVars, watchVars, startVars, delVars>>

NextOcr == OcrCall \/ OcrAttempt \/ OcrReturn

SpecOcr == InitOcr /\ [][NextOcr]_vars

\* The attempts mode by mode: for each mode, each image in turn.
ModeMajor(imgs) ==
    [k \in 1..(Len(PsmModes) * Len(imgs)) |->
        <<imgs[((k - 1) % Len(imgs)) + 1], PsmModes[((k - 1) \div Len(imgs)) + 1]>>]

IsPrefix(a, b) == Len(a) <= Len(b) /\ \A k \in 1..Len(a) : a[k] = b[k]

\* C20: run_ocr_with_modes tries the modes in the order 4, 11, 6, 3, 7, 13
\* and, for each mode, the original image and then the preprocessed one,
\* before it moves to the next mode; it stops at the first attempt whose
\* trimmed text is longer than 20 characters and returns its result.
C20_AttemptOrder ==
    cmd.op = "run_ocr_with_modes" =>
        /\ IsPrefix(cmd.tried, ModeMajor(cmd.images))
        /\ (out # <<>> /\ out.ok /\ out.raw.len > GoodLength) =>
               cmd.tried[Len(cmd.tried)] = <<out.raw.img, out.raw.psm>>

----------------------------------------------------------------------------
(* SpecFuse: combine_ocr_results                                           *)

\* A text is the sequence of its whitespace tokens, joined by single spaces.
\* The tokens: "Hi" and "hi!" have the normalized form "hi", "ok" and "OK."
\* the form "ok", and "--" has no alphanumeric character.
FuseWords == {"Hi", "hi!", "ok", "OK.", "--"}
MaxFuseTokens == 2     \* tokens of a text given to combine_ocr_results
FuseTexts == UNION {[1..n -> FuseWords] : n \in 0..MaxFuseTokens}
\* Option<String>: None, or Some(text)
Absent == [some |-> FALSE, v |-> <<>>]
FuseInputs == {Absent} \cup {Some(ws) : ws \in FuseTexts}

\* word.to_lowercase().trim_matches(|c| !c.is_alphanumeric()), lines 1008
\* and 1016
normalized(w) ==
    CASE w \in {"Hi", "hi!"} -> "hi"
      [] w \in {"ok", "OK."} -> "ok"
      [] OTHER               -> ""

\* The loops of lines 1007-1020 over the tokens ws, with the set seen
RECURSIVE MergeUnique(_, _)
MergeUnique(ws, seenForms) ==
    IF ws = <<>> THEN <<>>
    ELSE LET w == Head(ws)
             n == normalized(w)
         IN IF n # "" /\ n \notin seenForms
            THEN <<w>> \o MergeUnique(Tail(ws), seenForms \cup {n})
            ELSE MergeUnique(Tail(ws), seenForms)

\* combine_ocr_results(vision_text, tesseract_text)
combine_ocr_results(v, t) ==
    IF v.some /\ t.some
    THEN IF TextLen(v.v) > TextLen(t.v) * 2 THEN v.v
         ELSE IF TextLen(t.v) > TextLen(v.v) * 2 THEN t.v
         ELSE MergeUnique(v.v \o t.v, {})
    ELSE IF v.some THEN v.v
    ELSE IF t.some THEN t.v
    ELSE <<>>

InitFuse ==
    /\ fs = EmptyMap
    /\ clock = 0
    /\ DbIdle /\ WatchIdle /\ StartIdle /\ DelIdle /\ CmdIdle

CallCombine ==
    \E v \in FuseInputs, t \in FuseInputs :
        /\ cmd.op = "none"
        /\ cmd' = [op |-> "combine_ocr_results", vision |-> v, tesseract |-> t]
        /\ out' = combine_ocr_results(v, t)
        /\ UNCHANGED <<fs, clock, dbVars, watchVars, startVars, delVars>>

NextFuse == CallCombine

SpecFuse == InitFuse /\ [][NextFuse]_vars

\* The tokens of ws in order without those whose normalized form was emitted
\* before, and without no other.
RECURSIVE SkipEmitted(_, _)
SkipEmitted(ws, emitted) ==
    IF ws = <<>> THEN <<>>
    ELSE IF normalized(Head(ws)) \in emitted THEN SkipEmitted(Tail(ws), emitted)
    ELSE <<Head(ws)>> \o SkipEmitted(Tail(ws), emitted \cup {normalized(Head(ws))})

\* C21: combine_ocr_results returns the empty text when both inputs are
\* absent, the present one when one is, the longer one when its length
\* exceeds twice the other's, and otherwise the tokens of Vision followed by
\* those of Tesseract, omitting exactly the tokens whose normalized form was
\* already emitted.
C21_Fusion ==
    cmd.op = "combine_ocr_results" =>
        LET v == cmd.vision
            t == cmd.tesseract
        IN out = IF ~v.some /\ ~t.some THEN <<>>
                 ELSE IF ~t.some THEN v.v
                 ELSE IF ~v.some THEN t.v
                 ELSE IF TextLen(v.v) > 2 * TextLen(t.v) THEN v.v
                 ELSE IF TextLen(t.v) > 2 * TextLen(v.v) THEN t.v
                 ELSE SkipEmitted(v.v \o t.v, {})

----------------------------------------------------------------------------
(* SpecWait: wait_for_file, one metadata poll at a time                    *)

\* line 145: for _ in 0..12
MaxPolls == 12

\* fs::metadata(path) of a poll: Err, or Ok with the size of the file
PollErr == [ok |-> FALSE, size |-> 0]
PollOk(n) == [ok |-> TRUE, size |-> n]
PollSizes == {0, 5, 9}
PollOutcomes == {PollErr} \cup {PollOk(n) : n \in PollSizes}

\* The results of wait_for_file
WaitOk  == [ok |-> TRUE]
WaitErr == [ok |-> FALSE, error |-> "File not ready after waiting"]

InitWait ==
    /\ fs = EmptyMap
    /\ clock = 0
    /\ DbIdle /\ WatchIdle /\ StartIdle /\ DelIdle /\ CmdIdle

\* wait_for_file(path) is called (line 143); prev and stable are history:
\* the outcome of the last poll, and whether two polls in a row have read
\* the same non-zero size.
WaitCall ==
    /\ cmd.op = "none"
    /\ cmd' = [op |-> "wait_for_file", polls |-> 0, last_size |-> None,
               prev |-> PollErr, stable |-> FALSE]
    /\ out' = out
    /\ UNCHANGED <<fs, clock, dbVars, watchVars, startVars, delVars>>

\* One iteration of the loop, lines 145-158
WaitPoll ==
    /\ cmd.op = "wait_for_file" /\ out = <<>>
    /\ cmd.polls < MaxPolls
    /\ \E m \in PollOutcomes :
          LET same == m.ok /\ cmd.prev.ok /\ m.size > 0 /\ m.size = cmd.prev.size
              c == [cmd EXCEPT !.polls = @ + 1, !.prev = m,
                               !.stable = @ \/ same]
          IN IF m.ok
             THEN IF m.size > 0 /\ cmd.last_size = Some(m.size)
                  THEN /\ cmd' = c
                       /\ out' = WaitOk
                  ELSE /\ cmd' = [c EXCEPT !.last_size = Some(m.size)]
                       /\ out' = out
             ELSE /\ cmd' = c
                  /\ out' = out
    /\ UNCHANGED <<fs, clock, dbVars, watchVars, startVars, delVars>>

\* line 160: the loop is over
WaitGiveUp ==
    /\ cmd.op = "wait_for_file" /\ out = <<>>
    /\ cmd.polls = MaxPolls
    /\ out' = WaitErr
    /\ cmd' = cmd
    /\ UNCHANGED <<fs, clock, dbVars, watchVars, startVars, delVars>>

NextWait == WaitCall \/ WaitPoll \/ WaitGiveUp

SpecWait == InitWait /\ [][NextWait]_vars

\* C22: wait_for_file makes at most 12 polls, and returns Ok exactly when two
\* consecutive polls have read the same non-zero size, and Err otherwise.
C22_WaitForFile ==
    cmd.op = "wait_for_file" =>
        /\ cmd.polls <= MaxPolls
        /\ out # <<>> => (out.ok <=> cmd.stable)

\* A step of handle_event on the event ev
Handles(ev) == events # <<>> /\ ev = Head(events) /\ events' = Tail(events)

\* The paths for which the step spawns a task
Spawned == {workers'[i].path : i \in (Len(workers) + 1)..Len(workers')}

\* C23: a Remove event starts no pipeline run and adds every path of the
\* event to the known set; once a Remove event for a path has been handled,
\* no later Create or Modify event on the path starts a pipeline run.
RemoveIsFinal ==
    /\ \A ev \in Range(events) :
          (Handles(ev) /\ ev.kind = "Remove") =>
              /\ Spawned = {}
              /\ Range(ev.paths) \subseteq known'
    /\ Spawned \cap DOMAIN removed = {}

C23_RemoveIsFinal == [][RemoveIsFinal]_vars

\* C23 witness: a Create or Modify event was handled on a path after a Remove
\* event for it, and the path is not one start_watcher or a pipeline run has
\* marked known.
C23_Witness ==
    \E p \in DOMAIN removed :
        /\ removed[p]
        /\ p \notin Range(existing)
        /\ Count(p) = 0
        /\ events = <<>>

\* C24: a text that matches none of the rules Messages, Code, Design and
\* Receipts and matches both the Browser rule and the Terminal rule is tagged
\* Terminal and is not tagged Browser.
C24_TerminalOverridesBrowser ==
    cmd.op = "detect_collections" =>
        LET f == cmd.f
        IN (/\ ~MessagesRule(f) /\ ~CodeRule(f) /\ ~DesignRule(f) /\ ~ReceiptsRule(f)
            /\ f.has_browser /\ f.has_terminal)
               => /\ InSeq("Terminal", out)
                  /\ ~InSeq("Browser", out)

----------------------------------------------------------------------------
(* Deletion of the file and of the row *)

\* When delete_files has returned, no path of deleted has a file or a row.
DeletedAreGone ==
    delpc = "done" =>
        \A i \in 1..Len(delOut.deleted) :
            LET p == delOut.deleted[i]
            IN p \notin DOMAIN fs /\ ~HasRow(index, p)

\* Deleting a path that was reported deleted before leaves the index as it
\* is.
RedeleteKeepsIndex ==
    (delpc = "loop" /\ delOut' # delOut) =>
        LET p == delArgs[Len(delOut.deleted) + Len(delOut.failed) + 1]
        IN InSeq(p, delOut.deleted) => index' = index

\* C25: every path that delete_files reports in deleted has no file and no
\* row of the index after the call, and deleting it again leaves the index
\* unchanged.
C25_DeleteDestroysBoth == []DeletedAreGone /\ [][RedeleteKeepsIndex]_vars

----------------------------------------------------------------------------
(* SpecRename: the watcher's pipeline on two screenshots taken in a row    *)

rA == Path("Desktop", "Screenshot 1", 0, "png")
rB == Path("Desktop", "Screenshot 2", 0, "png")

\* start_watcher found no file and serves the events; a tool has written two
\* screenshots with the same text into the same directory, whose Create
\* events are in the channel, a debounce window before the last tick.
InitRename ==
    /\ \E t \in ToolTexts :
          fs = (rA :> File(EpochMs, t, "h1")) @@ (rB :> File(EpochMs, t, "h2"))
    /\ clock = MaxClock - DebounceTicks
    /\ index = {} /\ nextId = 1 /\ lastCall = NoCall
    /\ known = {}
    /\ ignore = EmptyMap /\ debounce = EmptyMap /\ serial = 0
    /\ events = <<Ev("Create", <<rA>>, "tool"), Ev("Create", <<rB>>, "tool")>>
    /\ workers = <<>>
    /\ invoked = EmptyMap /\ evlog = EmptyMap /\ seen = {}
    /\ removed = EmptyMap /\ envCount = MaxEnvEvents
    /\ spc = "loop" /\ existing = <<>>
    /\ already = [ok |-> TRUE, dates |-> {}]
    /\ toProcess = <<>> /\ batch = BatchOff
    /\ progress = <<Terminal0>> /\ statuses = <<>>
    /\ DelIdle /\ CmdIdle

NextRename ==
    \/ HandleEvent
    \/ WorkerWake \/ WorkerBegin \/ WorkerWait \/ WorkerOcr \/ WorkerRename
    \/ WorkerFinish
    \/ WatchTick

SpecRename == InitRename /\ [][NextRename]_vars

\* C26: two distinct files the pipeline renames get distinct target paths, so
\* no rename replaces the file of another run, and when both runs are over
\* the index holds a row for each.
C26_RenameKeepsBoth ==
    \A i, j \in 1..Len(workers) :
        (/\ workers[i].path # workers[j].path
         /\ workers[i].renamed /\ workers[j].renamed)
            => /\ workers[i].final # workers[j].final
               /\ (workers[i].pc = "done" /\ workers[j].pc = "done")
                      => /\ HasRow(index, workers[i].final)
                         /\ HasRow(index, workers[j].final)
                         /\ Cardinality(index) >= 2

----------------------------------------------------------------------------
(* SpecBootFair: SpecBoot in which the threads of the program keep running *)

\* The steps of the thread of start_watcher, of the batch task, and of the
\* tasks handle_event spawns
StartThread == StartEnumerate \/ StartReconcile \/ StartMark \/ StartDispatch
               \/ StartWatch \/ HandleEvent
BatchTask   == BatchBegin \/ BatchWait \/ BatchOcr \/ BatchSave
WatchTasks  == WorkerWake \/ WorkerBegin \/ WorkerWait \/ WorkerOcr \/ WorkerRename
               \/ WorkerFinish

SpecBootFair ==
    /\ SpecBoot
    /\ WF_vars(StartThread) /\ WF_vars(BatchTask) /\ WF_vars(WatchTasks)
    /\ WF_vars(WatchTick)

\* p is on disk and start_watcher did not find it when it read the
\* directories.
AppearedLate(p) ==
    /\ spc \in {"reconcile", "mark", "dispatch", "watch", "loop"}
    /\ p \in DOMAIN fs /\ is_png(p) /\ ~is_hidden(p)
    /\ p \notin Range(existing)

\* A task spawned for p is still in its debounce sleep.
Pending(p) == \E i \in 1..Len(workers) : workers[i].path = p /\ workers[i].pc = "sleep"

\* C27: a PNG that appears in a watch directory after start_watcher has begun,
\* also between the enumeration and the registration of the directory, is
\* eventually passed to the pipeline (or is no longer there, or a task for it
\* still sleeps when the clock has reached its last tick).
C27_NoneMissed ==
    \A p \in BootFiles :
        AppearedLate(p) ~> (Count(p) > 0 \/ p \notin DOMAIN fs \/ Pending(p))

----------------------------------------------------------------------------
(* Reconciliation at the next startup *)

\* The already_indexed_dates the next start_watcher would compute from the
\* index as it is.
DatesAtRestart == {Rounded(en.at) : en \in Range(load_all_entries_from_db(index))}

\* C28: a file the watcher's pipeline has indexed and renamed, unchanged on
\* disk, is skipped by the batch coordinator at the next startup: the
\* created_at of its row and its creation time round to the same second.
C28_SkippedAtRestart ==
    \A i \in 1..Len(workers) :
        LET w == workers[i]
        IN (/\ w.pc = "done" /\ w.renamed
            /\ w.final \in DOMAIN fs /\ fs[w.final].ctime = w.born
            /\ \E r \in index : r.path = w.final /\ r.created_at = w.created_at)
               => /\ ~ShouldProcess(w.final, DatesAtRestart)
                  /\ Rounded(w.created_at) = Rounded(get_file_created_at(w.final))

----------------------------------------------------------------------------
(* SpecRetag: the reprocess_all_tags command                               *)

MaxRetagRows == 2     \* rows of the index reprocess_all_tags is called on

\* The row save_entry_to_db has written for the i-th text
RetagRow(i, t) ==
    [id |-> i, path |-> Path("Desktop", "shot", i, "png"), text |-> t,
     created_at |-> EpochMs,
     processed_at |-> EpochMs \div 1000, updated_at |-> EpochMs \div 1000,
     tags |-> DeriveTags(t),
     urls |-> extract_urls_and_emails(t)[1],
     emails |-> extract_urls_and_emails(t)[2],
     perceptual_hash |-> "h1"]

RetagIndexes ==
    UNION {{{RetagRow(i, ts[i]) : i \in 1..n} : ts \in [1..n -> Texts]}
              : n \in 0..MaxRetagRows}

InitRetag ==
    /\ fs = EmptyMap
    /\ clock = 0
    /\ \E idx \in RetagIndexes : index = idx
    /\ nextId = MaxRetagRows + 1 /\ lastCall = NoCall
    /\ WatchIdle /\ StartIdle /\ DelIdle /\ CmdIdle

\* lines 2276-2283: UPDATE entries SET tags = detect_collections(text)
Retagged(r) == [r EXCEPT !.tags = detect_collections(r.text)]

\* reprocess_all_tags(app): Err when the database cannot be opened or read
\* (db = FALSE); otherwise every row whose UPDATE does not fail (the rows of
\* F fail) gets its tags, and the number of updated rows is returned.
CallReprocess ==
    \E db \in BOOLEAN, F \in SUBSET index :
        /\ cmd.op = "none"
        /\ cmd' = [op |-> "reprocess_all_tags", before |-> index]
        /\ IF db
           THEN /\ index' = {IF r \in F THEN r ELSE Retagged(r) : r \in index}
                /\ out' = [ok |-> TRUE, updated |-> Cardinality(index \ F)]
           ELSE /\ F = {}
                /\ index' = index
                /\ out' = [ok |-> FALSE, updated |-> 0]
        /\ UNCHANGED <<fs, clock, nextId, lastCall, watchVars, startVars, delVars>>

NextRetag == CallReprocess

SpecRetag == InitRetag /\ [][NextRetag]_vars

\* C29: after reprocess_all_tags every row's tags are those save_entry_to_db
\* would write for the row's text (["Images"] for a text shorter than 10
\* characters); no other column changes, no row is added or removed, and the
\* number of rows updated is returned.
C29_RetagAgreesWithUpsert ==
    (cmd.op = "reprocess_all_tags" /\ out.ok) =>
        /\ \A r \in index : r.tags = DeriveTags(r.text)
        /\ {[r EXCEPT !.tags = <<>>] : r \in index}
               = {[r EXCEPT !.tags = <<>>] : r \in cmd.before}
        /\ out.updated <= Cardinality(index)

----------------------------------------------------------------------------
(* Groups of similar screenshots: disjoint, and bounded by their seed *)

\* The places (group, position) of the result
SimPlaces == {<<g, k>> : g \in 1..Len(out), k \in 1..MaxSimRows}
InResult(pl) == pl[1] \in 1..Len(out) /\ pl[2] \in 1..Len(out[pl[1]])

\* The hash of the row of path p
HashOf(p) == HashBytes((CHOOSE r \in index : r.path = p).perceptual_hash)

\* C30: no path is in two groups or twice in a group, and every member of a
\* group after the first is within the threshold of the first; a row that is
\* farther from the first is not in the group, whatever its distance from the
\* other members.
C30_DisjointSeedBounded ==
    cmd.op = "find_similar_screenshots" =>
        LET th == unwrap_or(cmd.threshold, DefaultThreshold)
        IN /\ \A a, b \in SimPlaces :
                 (InResult(a) /\ InResult(b) /\ a # b)
                     => out[a[1]][a[2]] # out[b[1]][b[2]]
           /\ \A g \in 1..Len(out) : \A k \in 2..Len(out[g]) :
                 hamming_distance(HashOf(out[g][1]), HashOf(out[g][k])) <= th
           /\ \A g \in 1..Len(out) : \A r \in index :
                 (/\ r.perceptual_hash # NoHash
                  /\ r.path # out[g][1]
                  /\ hamming_distance(HashOf(out[g][1]), HashOf(r.path)) > th)
                     => ~InSeq(r.path, out[g])

\* C30 witness: with threshold 6 the seed's group holds two rows that are 4
\* and 6 bits from the seed and 10 bits from each other.
C30_Witness ==
    /\ cmd.op = "find_similar_screenshots" /\ cmd.threshold = Some(6)
    /\ index = {SimRow(1, "h2"), SimRow(2, "h1"), SimRow(3, "h5")}
    /\ out = << <<SimPath(1), SimPath(2), SimPath(3)>> >>
    /\ hamming_distance(HashBytes("h1"), HashBytes("h5")) > 6

====
